---- MODULE Spec2Model ----
(***************************************************************************)
(* A model of LinkedInOpportunityAgent (src/linkedin_agent.py).            *)
(*                                                                         *)
(* Texts are TLA+ strings; Len, \o and SubSeq act on them character by     *)
(* character, so a substring test is the Python `in` on str.  A confidence *)
(* (a Python float k/n with n <= 100) is the exact fraction                *)
(* [num |-> k, den |-> n]; fractions are compared by cross-multiplication. *)
(* The float quotients of the lexicon sizes (27, 31, 34, 28) and the       *)
(* literals 0.3 and 0.2 are ordered exactly as the fractions are: two      *)
(* different fractions with denominators <= 100 differ by at least         *)
(* 1/10000, far more than a rounding error.                                *)
(***************************************************************************)
EXTENDS Integers, Sequences, FiniteSets, TLC

VARIABLES
    keywords,            \* self.keywords
    help_indicators,     \* self.help_indicators
    urgency_indicators,  \* self.urgency_indicators
    pc,                  \* "idle" | "returned": the sequential caller
    op,                  \* the method last called
    arg,                 \* its argument
    result,              \* what it returned
    calls                \* the concurrent callers: the locals of each one's call

vars == <<keywords, help_indicators, urgency_indicators, pc, op, arg, result, calls>>

-----------------------------------------------------------------------------
(* Characters and strings *)

Chr(s, i) == SubSeq(s, i, i)

CharsOf(s) == {Chr(s, i) : i \in 1..Len(s)}

UpperLetters == "ABCDEFGHIJKLMNOPQRSTUVWXYZ"
LowerLetters == "abcdefghijklmnopqrstuvwxyz"
DigitChars == "0123456789"

Letters == CharsOf(UpperLetters) \cup CharsOf(LowerLetters)
Digits == CharsOf(DigitChars)

\* str.isspace / the regex class \s on ASCII text
Whitespace == {" ", "\t", "\n", "\r", "\f"}

\* the regex class \w on ASCII text
WordChars == Letters \cup Digits \cup {"_"}

\* the letter at the place of c in `from`, taken from `to`
Swap(c, from, to) == Chr(to, CHOOSE i \in 1..Len(from) : Chr(from, i) = c)

\* c.lower() and c.upper() of one character
LowerChar(c) == IF c \in CharsOf(UpperLetters) THEN Swap(c, UpperLetters, LowerLetters) ELSE c

UpperChar(c) == IF c \in CharsOf(LowerLetters) THEN Swap(c, LowerLetters, UpperLetters) ELSE c

\* text.lower() of the characters lo..hi, by halves (the evaluation nests
\* only as deep as the logarithm of the length)
RECURSIVE LowerRange(_, _, _)
LowerRange(s, lo, hi) ==
    IF lo > hi THEN ""
    ELSE IF lo = hi THEN LowerChar(Chr(s, lo))
    ELSE LET mid == (lo + hi) \div 2
         IN  LowerRange(s, lo, mid) \o LowerRange(s, mid + 1, hi)

Lower(s) == LowerRange(s, 1, Len(s))

\* the least position of the set S, and `none` if S is empty
First(S, none) ==
    IF S = {} THEN none ELSE CHOOSE j \in S : \A k \in S : j <= k

\* s[i-1:].startswith(p), with i counted from 1
StartsAt(s, i, p) ==
    /\ i + Len(p) - 1 <= Len(s)
    /\ SubSeq(s, i, i + Len(p) - 1) = p

\* the Python test `p in s`
Contains(s, p) == \E i \in 1..(Len(s) - Len(p) + 1) : StartsAt(s, i, p)

\* the number of characters of the class `cls` in a row from position i
RunLen(s, i, cls) ==
    IF i > Len(s) \/ Chr(s, i) \notin cls THEN 0
    ELSE First({j \in i..Len(s) : Chr(s, j) \notin cls}, Len(s) + 1) - i

\* s.strip()
Strip(s) ==
    LET kept == {j \in 1..Len(s) : Chr(s, j) \notin Whitespace}
    IN  IF kept = {} THEN ""
        ELSE SubSeq(s, First(kept, 0), CHOOSE j \in kept : \A k \in kept : k <= j)

-----------------------------------------------------------------------------
(* preprocess_text *)

\* re.sub(r'\s+', ' ', text)
\* (from position i on: the text up to the next match as it is, the match
\* replaced, then the rest)
RECURSIVE CollapseFrom(_, _)
CollapseFrom(s, i) ==
    LET at == First({j \in i..Len(s) : Chr(s, j) \in Whitespace}, Len(s) + 1)
    IN  IF at > Len(s) THEN SubSeq(s, i, Len(s))
        ELSE SubSeq(s, i, at - 1) \o " "
             \o CollapseFrom(s, at + RunLen(s, at, Whitespace))

CollapseWhitespace(s) == CollapseFrom(s, 1)

\* the character class of the URL pattern: [a-zA-Z], [0-9], [$-_@.&+] (the
\* range from '$' to '_', then '@', '.', '&', '+') and [!*\\(\\),]; the
\* alternative %xx is made of characters of the range already
UrlChars ==
    Letters \cup Digits
    \cup CharsOf("$%&'()*+,-./:;<=>?@[\\]^_")
    \cup CharsOf("!*\\(),")

\* the length of the match of http[s]?://(?:...)+ at position i, 0 if none
UrlMatchLen(s, i) ==
    LET scheme == IF StartsAt(s, i, "https://") THEN 8
                  ELSE IF StartsAt(s, i, "http://") THEN 7 ELSE 0
        n == RunLen(s, i + scheme, UrlChars)
    IN  IF scheme > 0 /\ n > 0 THEN scheme + n ELSE 0

\* re.sub(<url pattern>, '', text)
RECURSIVE RemoveUrlsFrom(_, _)
RemoveUrlsFrom(s, i) ==
    LET at == First({j \in i..Len(s) : UrlMatchLen(s, j) > 0}, Len(s) + 1)
    IN  IF at > Len(s) THEN SubSeq(s, i, Len(s))
        ELSE SubSeq(s, i, at - 1) \o RemoveUrlsFrom(s, at + UrlMatchLen(s, at))

RemoveUrls(s) == RemoveUrlsFrom(s, 1)

\* re.sub(r'#(\w+)', r'\1', text)
\* the length of the match of #(\w+) at position i, 0 if none
HashtagMatchLen(s, i) ==
    IF Chr(s, i) = "#" /\ RunLen(s, i + 1, WordChars) > 0
    THEN 1 + RunLen(s, i + 1, WordChars) ELSE 0

RECURSIVE UnwrapFrom(_, _)
UnwrapFrom(s, i) ==
    LET at == First({j \in i..Len(s) : HashtagMatchLen(s, j) > 0}, Len(s) + 1)
        n == HashtagMatchLen(s, at)
    IN  IF at > Len(s) THEN SubSeq(s, i, Len(s))
        ELSE SubSeq(s, i, at - 1) \o SubSeq(s, at + 1, at + n - 1)
             \o UnwrapFrom(s, at + n)

UnwrapHashtags(s) == UnwrapFrom(s, 1)

preprocess_text(text) ==
    Strip(UnwrapHashtags(RemoveUrls(CollapseWhitespace(Lower(text)))))

-----------------------------------------------------------------------------
(* The enumerations and the lexicons built by __init__.  A Python dict is   *)
(* a sequence of entries in insertion order, which is its iteration order.  *)

DATA_INTEGRATION == "data_integration"
DATA_VISUALIZATION == "data_visualization"
WEB_DEVELOPMENT == "web_development"
APP_DEVELOPMENT == "app_development"
MIXED == "mixed"

OpportunityType ==
    {DATA_INTEGRATION, DATA_VISUALIZATION, WEB_DEVELOPMENT, APP_DEVELOPMENT, MIXED}

LOW == "low"
MEDIUM == "medium"
HIGH == "high"
URGENT == "urgent"

UrgencyLevel == {LOW, MEDIUM, HIGH, URGENT}

InitKeywords == <<
    [type |-> DATA_INTEGRATION,
     primary |-> <<"data integration", "data pipeline", "etl", "data migration",
                   "api integration", "database sync", "data warehousing",
                   "data consolidation", "system integration", "data flow">>,
     secondary |-> <<"connect systems", "merge data", "automate data",
                     "real-time data", "data sync", "import data", "export data">>],
    [type |-> DATA_VISUALIZATION,
     primary |-> <<"data visualization", "dashboard", "reporting", "analytics",
                   "charts", "graphs", "business intelligence", "bi tool",
                   "data analysis", "metrics", "kpi dashboard">>,
     secondary |-> <<"visualize data", "show data", "data insights",
                     "performance tracking", "report automation", "tableau",
                     "power bi", "looker", "data studio">>],
    [type |-> WEB_DEVELOPMENT,
     primary |-> <<"website", "web development", "web app", "web application",
                   "frontend", "backend", "full stack", "responsive design",
                   "web portal", "landing page", "e-commerce">>,
     secondary |-> <<"build website", "create site", "web solution",
                     "online presence", "web platform", "cms", "wordpress",
                     "react", "angular", "vue", "django", "flask">>],
    [type |-> APP_DEVELOPMENT,
     primary |-> <<"mobile app", "app development", "ios app", "android app",
                   "application development", "native app", "cross platform",
                   "flutter", "react native", "swift", "kotlin">>,
     secondary |-> <<"build app", "create application", "mobile solution",
                     "app store", "play store", "mobile platform">>] >>

InitHelpIndicators == <<
    "looking for", "need help", "seeking", "require", "want to hire",
    "need assistance", "help needed", "recommendations for",
    "anyone know", "suggestions for", "advice on", "expertise in",
    "consultant", "freelancer", "agency", "developer", "specialist",
    "outsource", "contract", "project", "budget for", "quote for" >>

InitUrgencyIndicators == <<
    [level |-> URGENT, indicators |-> <<"urgent", "asap", "immediately", "rush", "emergency">>],
    [level |-> HIGH, indicators |-> <<"soon", "quickly", "fast", "priority", "deadline">>],
    [level |-> MEDIUM, indicators |-> <<"next month", "few weeks", "planning", "upcoming">>],
    [level |-> LOW, indicators |-> <<"future", "eventually", "considering", "thinking about">>] >>

\* the agent object as the methods see it
Self ==
    [keywords |-> keywords,
     help_indicators |-> help_indicators,
     urgency_indicators |-> urgency_indicators]

InitSelf ==
    [keywords |-> InitKeywords,
     help_indicators |-> InitHelpIndicators,
     urgency_indicators |-> InitUrgencyIndicators]

Range(seq) == {seq[i] : i \in 1..Len(seq)}

-----------------------------------------------------------------------------
(* Confidences: exact fractions in lowest terms *)

RECURSIVE Gcd(_, _)
Gcd(a, b) == IF b = 0 THEN a ELSE Gcd(b, a % b)

Frac(n, d) == IF n = 0 THEN [num |-> 0, den |-> 1]
              ELSE [num |-> n \div Gcd(n, d), den |-> d \div Gcd(n, d)]

FracLess(x, y) == x.num * y.den < y.num * x.den

\* min(x, 1.0)
MinOne(x) == IF FracLess(Frac(1, 1), x) THEN Frac(1, 1) ELSE x

-----------------------------------------------------------------------------
(* detect_help_seeking, calculate_opportunity_scores, detect_urgency *)

\* the list of the entries of `list` that occur in `text`, in list order
Matched(list, text) == SelectSeq(list, LAMBDA kw : Contains(text, kw))

\* as detect_help_seeking, with `>= 0` for `> 0` in the returned flag
detect_help_seeking_always(self, text) ==
    LET found_indicators == Matched(self.help_indicators, text)
    IN  [is_seeking_help |-> Len(found_indicators) >= 0,
         help_indicators |-> found_indicators]

detect_help_seeking(self, text) ==
    LET found_indicators == Matched(self.help_indicators, text)
    IN  [is_seeking_help |-> Len(found_indicators) > 0,
         help_indicators |-> found_indicators]

\* as CategoryScore, with the weight 2 on the secondary matches
CategoryScore_swapped(entry, text) ==
    LET primary_matches == Len(Matched(entry.primary, text))
        secondary_matches == Len(Matched(entry.secondary, text))
        total_score == primary_matches + (secondary_matches * 2)
        max_possible == (Len(entry.primary) * 2) + Len(entry.secondary)
    IN  IF max_possible > 0 THEN MinOne(Frac(total_score, max_possible))
        ELSE Frac(0, 1)

\* the confidence of one entry of self.keywords
CategoryScore(entry, text) ==
    LET primary_matches == Len(Matched(entry.primary, text))
        secondary_matches == Len(Matched(entry.secondary, text))
        total_score == (primary_matches * 2) + secondary_matches
        max_possible == (Len(entry.primary) * 2) + Len(entry.secondary)
    IN  IF max_possible > 0 THEN MinOne(Frac(total_score, max_possible))
        ELSE Frac(0, 1)

\* the dict scores, as the sequence of its items
calculate_opportunity_scores(self, text) ==
    [k \in 1..Len(self.keywords) |->
        [type |-> self.keywords[k].type,
         score |-> CategoryScore(self.keywords[k], text)]]

\* the loop over self.urgency_indicators.items() from entry k on
RECURSIVE UrgencyFrom(_, _, _)
UrgencyFrom(tiers, text, k) ==
    IF k > Len(tiers) THEN MEDIUM
    ELSE IF Len(Matched(tiers[k].indicators, text)) > 0 THEN tiers[k].level
    ELSE UrgencyFrom(tiers, text, k + 1)

\* s[::-1] of a list
Reverse(list) == [k \in 1..Len(list) |-> list[Len(list) + 1 - k]]

\* as detect_urgency, over the tiers from low to urgent, the order in which
\* the enumeration UrgencyLevel declares them
detect_urgency_enum_order(self, text) ==
    UrgencyFrom(Reverse(self.urgency_indicators), text, 1)

detect_urgency(self, text) == UrgencyFrom(self.urgency_indicators, text, 1)

-----------------------------------------------------------------------------
(* extract_requirements *)

\* the six tech_patterns, each the list of its alternatives in the order the
\* regex tries them; node\.?js is "node.js", then "nodejs"
TechPatterns == <<
    <<"python", "java", "javascript", "react", "angular", "vue", "node.js",
      "nodejs", "django", "flask", "spring">>,
    <<"sql", "mysql", "postgresql", "mongodb", "oracle", "elasticsearch">>,
    <<"aws", "azure", "gcp", "google cloud", "cloud">>,
    <<"tableau", "power bi", "looker", "qlik", "grafana">>,
    <<"api", "rest", "graphql", "microservices">>,
    <<"mobile", "ios", "android", "flutter", "react native">> >>

\* the length of the first alternative of `alts` that matches at i, 0 if none
AltMatchLen(alts, s, i) ==
    LET hits == {k \in 1..Len(alts) : StartsAt(s, i, alts[k])}
    IN  IF hits = {} THEN 0
        ELSE Len(alts[CHOOSE k \in hits : \A j \in hits : k <= j])

\* budget_pattern: \$[\d,]+(?:\.\d{2})?|\d+k?\s*(?:budget|dollar|usd)
BudgetMatchLen(s, i) ==
    LET amount == RunLen(s, i + 1, Digits \cup {","})
        cents == IF /\ i + amount + 3 <= Len(s)
                    /\ Chr(s, i + amount + 1) = "."
                    /\ Chr(s, i + amount + 2) \in Digits
                    /\ Chr(s, i + amount + 3) \in Digits
                 THEN 3 ELSE 0
        digits == RunLen(s, i, Digits)
        k == IF StartsAt(s, i + digits, "k") THEN 1 ELSE 0
        spaces == RunLen(s, i + digits + k, Whitespace)
        word == AltMatchLen(<<"budget", "dollar", "usd">>, s, i + digits + k + spaces)
    IN  IF Chr(s, i) = "$" /\ amount > 0 THEN 1 + amount + cents
        ELSE IF digits > 0 /\ word > 0 THEN digits + k + spaces + word
        ELSE 0

\* timeline_pattern: \d+\s*(?:days?|weeks?|months?|hours?)
TimelineMatchLen(s, i) ==
    LET digits == RunLen(s, i, Digits)
        spaces == RunLen(s, i + digits, Whitespace)
        unit == AltMatchLen(<<"day", "week", "month", "hour">>, s, i + digits + spaces)
        plural == IF StartsAt(s, i + digits + spaces + unit, "s") THEN 1 ELSE 0
    IN  IF digits > 0 /\ unit > 0 THEN digits + spaces + unit + plural ELSE 0

MatchLen(pattern, s, i) ==
    CASE pattern.kind = "tech" -> AltMatchLen(pattern.alts, s, i)
      [] pattern.kind = "budget" -> BudgetMatchLen(s, i)
      [] pattern.kind = "timeline" -> TimelineMatchLen(s, i)

\* re.findall(pattern, text, re.IGNORECASE): the matches from left to right,
\* none overlapping; `folded` is the text in lower case, which the lower-case
\* patterns are matched against
RECURSIVE FindAllFrom(_, _, _, _)
FindAllFrom(pattern, text, folded, i) ==
    LET at == First({j \in i..Len(text) : MatchLen(pattern, folded, j) > 0}, Len(text) + 1)
        n == MatchLen(pattern, folded, at)
    IN  IF at > Len(text) THEN <<>>
        ELSE <<SubSeq(text, at, at + n - 1)>>
             \o FindAllFrom(pattern, text, folded, at + n)

FindAll(pattern, text) == FindAllFrom(pattern, text, Lower(text), 1)

\* match.title(): a letter after a letter in lower case, any other letter in
\* upper case
RECURSIVE TitleFrom(_, _)
TitleFrom(s, i) ==
    IF i > Len(s) THEN ""
    ELSE (IF i > 1 /\ Chr(s, i - 1) \in Letters
          THEN LowerChar(Chr(s, i)) ELSE UpperChar(Chr(s, i)))
         \o TitleFrom(s, i + 1)

Title(s) == TitleFrom(s, 1)

\* ', '.join(list)
RECURSIVE Join(_)
Join(list) ==
    IF Len(list) = 0 THEN ""
    ELSE IF Len(list) = 1 THEN list[1]
    ELSE list[1] \o ", " \o Join(Tail(list))

\* the elements of `list`, each once, in the order of their first occurrence
RECURSIVE Dedup(_)
Dedup(list) ==
    IF Len(list) = 0 THEN <<>>
    ELSE LET front == Dedup(SubSeq(list, 1, Len(list) - 1))
             last == list[Len(list)]
         IN  IF last \in Range(front) THEN front ELSE Append(front, last)

\* the matches of tech_patterns[k..], each in title case
RECURSIVE TechFrom(_, _)
TechFrom(text, k) ==
    IF k > Len(TechPatterns) THEN <<>>
    ELSE LET matches == FindAll([kind |-> "tech", alts |-> TechPatterns[k]], text)
         IN  [j \in 1..Len(matches) |-> Title(matches[j])] \o TechFrom(text, k + 1)

\* list(set(requirements)): Python leaves the order of the list open, and
\* the model keeps the order of first occurrence
extract_requirements(text) ==
    LET budget_matches == FindAll([kind |-> "budget"], text)
        timeline_matches == FindAll([kind |-> "timeline"], text)
        requirements ==
            TechFrom(text, 1)
            \o (IF Len(budget_matches) > 0
                THEN <<"Budget mentioned: " \o Join(budget_matches)>> ELSE <<>>)
            \o (IF Len(timeline_matches) > 0
                THEN <<"Timeline: " \o Join(timeline_matches)>> ELSE <<>>)
    IN  Dedup(requirements)

-----------------------------------------------------------------------------
(* analyze_post *)

\* the [:10] of line 227
TopIndicators == 10

\* max(opportunity_scores.items(), key=lambda x: x[1]): the first item of
\* the greatest score
RECURSIVE BestFrom(_, _, _)
BestFrom(scores, k, best) ==
    IF k > Len(scores) THEN best
    ELSE BestFrom(scores, k + 1,
                  IF FracLess(best.score, scores[k].score) THEN scores[k] ELSE best)

\* as Best, the last item of the greatest score (`>=` for `>`)
Best_last(scores) == BestFrom(Reverse(scores), 2, scores[Len(scores)])

Best(scores) == BestFrom(scores, 2, scores[1])

\* as HighScores, with the threshold 0.5
HighScores_half(scores) == SelectSeq(scores, LAMBDA item : FracLess(Frac(5, 10), item.score))

\* [opp for opp, score in opportunity_scores.items() if score > 0.3]
HighScores(scores) == SelectSeq(scores, LAMBDA item : FracLess(Frac(3, 10), item.score))

\* the keywords of every category found in the text, primary then secondary
RECURSIVE KeywordsFoundFrom(_, _, _)
KeywordsFoundFrom(kws, text, k) ==
    IF k > Len(kws) THEN <<>>
    ELSE Matched(kws[k].primary \o kws[k].secondary, text)
         \o KeywordsFoundFrom(kws, text, k + 1)

\* as TopLists, without the [:10]
TopLists_all(key_indicators) == {Dedup(key_indicators)}

\* list(set(key_indicators))[:10]: the set's iteration order is open in
\* Python, so any TopIndicators of the distinct indicators may be the ones
\* kept; the model lists the kept ones in the order of first occurrence
TopLists(key_indicators) ==
    LET distinct == Dedup(key_indicators)
    IN  IF Len(distinct) <= TopIndicators THEN {distinct}
        ELSE {SelectSeq(distinct, LAMBDA x : x \in kept) :
                kept \in {S \in SUBSET Range(distinct) : Cardinality(S) = TopIndicators}}

\* the OpportunityScore returned when the post does not seek help
NotSeekingHelp ==
    [opportunity_type |-> DATA_INTEGRATION,
     confidence_score |-> Frac(0, 1),
     urgency_level |-> LOW,
     key_indicators |-> <<>>,
     extracted_requirements |-> <<>>]

\* opportunity_type after the check for a mixed opportunity
TypeOf(opportunity_scores) ==
    IF Len(HighScores(opportunity_scores)) > 1 THEN MIXED
    ELSE Best(opportunity_scores).type

\* key_indicators before list(set(...))[:10]
CompiledIndicators(self, found_indicators, cleaned_text) ==
    found_indicators \o KeywordsFoundFrom(self.keywords, cleaned_text, 1)

\* the OpportunityScore objects analyze_post may return for post_text
analyze_post(self, post_text) ==
    LET cleaned_text == preprocess_text(post_text)
        help == detect_help_seeking(self, cleaned_text)
        opportunity_scores == calculate_opportunity_scores(self, cleaned_text)
        opportunity_type == TypeOf(opportunity_scores)
        confidence_score == Best(opportunity_scores).score
        urgency == detect_urgency(self, cleaned_text)
        requirements == extract_requirements(cleaned_text)
        key_indicators == CompiledIndicators(self, help.help_indicators, cleaned_text)
    IN  IF ~help.is_seeking_help
        THEN {NotSeekingHelp}
        ELSE {[opportunity_type |-> opportunity_type,
               confidence_score |-> confidence_score,
               urgency_level |-> urgency,
               key_indicators |-> top,
               extracted_requirements |-> requirements] :
              top \in TopLists(key_indicators)}

-----------------------------------------------------------------------------
(* generate_response_suggestions *)

base_approaches(opportunity_type) ==
    CASE opportunity_type = DATA_INTEGRATION -> <<
            "Highlight experience with ETL processes and data pipelines",
            "Mention specific integration tools (Zapier, MuleSoft, custom APIs)",
            "Showcase data warehousing and real-time processing capabilities">>
      [] opportunity_type = DATA_VISUALIZATION -> <<
            "Share portfolio of dashboard examples",
            "Mention expertise in Tableau, Power BI, or custom solutions",
            "Highlight ability to translate business needs into visual insights">>
      [] opportunity_type = WEB_DEVELOPMENT -> <<
            "Showcase relevant web development portfolio",
            "Mention technology stack expertise (React, Django, etc.)",
            "Emphasize responsive design and user experience">>
      [] opportunity_type = APP_DEVELOPMENT -> <<
            "Share mobile app portfolio and app store links",
            "Mention cross-platform vs native development capabilities",
            "Highlight user-centric design approach">>
      [] opportunity_type = MIXED -> <<
            "Emphasize full-stack capabilities across multiple domains",
            "Mention integrated solutions experience",
            "Highlight project management for complex requirements">>
      [] OTHER -> <<>>

\* as generate_response_suggestions, with `<= 0.2` for `< 0.2`
generate_response_suggestions_inclusive(opportunity) ==
    IF ~FracLess(Frac(2, 10), opportunity.confidence_score)
    THEN <<"Low confidence opportunity - may not be relevant">>
    ELSE base_approaches(opportunity.opportunity_type)
         \o (IF opportunity.urgency_level \in {HIGH, URGENT}
             THEN <<"Emphasize quick turnaround and availability",
                    "Mention agile development approach">>
             ELSE <<>>)

generate_response_suggestions(opportunity) ==
    IF FracLess(opportunity.confidence_score, Frac(2, 10))
    THEN <<"Low confidence opportunity - may not be relevant">>
    ELSE base_approaches(opportunity.opportunity_type)
         \o (IF opportunity.urgency_level \in {HIGH, URGENT}
             THEN <<"Emphasize quick turnaround and availability",
                    "Mention agile development approach">>
             ELSE <<>>)

-----------------------------------------------------------------------------
(* The inputs of the calls *)

MaxRawPieces == 3
MaxPostPieces == 2
MaxUrgencyPieces == 2

\* the texts made of at most n pieces of P, one after the other
RECURSIVE Texts(_, _)
Texts(P, n) ==
    IF n = 0 THEN {""}
    ELSE LET shorter == Texts(P, n - 1)
         IN  shorter \cup {t \o p : t \in shorter, p \in P}

\* raw text: upper case, whitespace runs, URLs, hashtags
RawPieces == {"a ", " B", "\t", "http://x.co", "https://", "#", "#Tag"}

RawTexts == Texts(RawPieces, MaxRawPieces)

\* the test_posts of main
SamplePosts == <<
    "Looking for a data visualization expert to create interactive dashboards for our sales team. Need someone with Tableau or Power BI experience. Budget around $5k, timeline 3 weeks.",
    "Hey everyone! Our startup needs help building a mobile app for iOS and Android. We're looking for a React Native developer who can work with our existing API. Anyone have recommendations?",
    "Urgent: Need data integration specialist ASAP! We have multiple databases that need to sync in real-time. Experience with ETL processes required. Please DM if interested.",
    "Planning to build a new website for our consulting firm. Need full-stack developer with modern framework experience. Not urgent, just exploring options.",
    "Can someone recommend a good restaurant in downtown? Thanks!" >>

\* the pieces of the other posts: a help-seeking phrase, an urgency phrase,
\* one keyword, a hashtag and a URL, requirement mentions, and a
\* help-seeking phrase with keywords enough for a confidence above 0.3
PostPieces == {
    "Looking for ",
    "URGENT ",
    "dashboard ",
    "#React http://x.co ",
    "python api $5,000 3 weeks ",
    "need help: mobile app ios app android app flutter swift " }

\* two categories above 0.3 (10/31 and 10/28), with and without a
\* help-seeking phrase
MixedPosts == {
    "Need help: dashboard reporting analytics charts graphs mobile app ios app android app flutter swift",
    "URGENT dashboard reporting analytics charts graphs mobile app ios app android app flutter swift" }

Posts == Texts(PostPieces, MaxPostPieces) \cup Range(SamplePosts) \cup MixedPosts

\* normalized texts with phrases of every urgency tier
UrgencyPieces == {
    "urgent ", "asap ", "soon ", "deadline ", "planning ", "few weeks ",
    "future ", "thinking about ", "hello " }

UrgencyTexts == {preprocess_text(t) : t \in Texts(UrgencyPieces, MaxUrgencyPieces)}

\* confidences on both sides of the 0.2 of generate_response_suggestions
Confidences ==
    {Frac(0, 1), Frac(19, 100), Frac(6, 31), Frac(2, 10), Frac(10, 27), Frac(1, 1)}

Opportunities ==
    [opportunity_type : OpportunityType,
     confidence_score : Confidences,
     urgency_level : UrgencyLevel,
     key_indicators : {<<>>, <<"looking for", "dashboard">>},
     extracted_requirements : {<<>>}]

-----------------------------------------------------------------------------
(* The sequential caller: one call of a method at a time *)

NoCall == "none"

NumCallers == 2

Callers == 1..NumCallers

\* a caller outside any call
Idle ==
    [pc |-> "idle", post_text |-> NoCall, cleaned_text |-> NoCall,
     help_indicators |-> NoCall, opportunity_scores |-> NoCall,
     urgency |-> NoCall, requirements |-> NoCall, score |-> NoCall,
     suggestions |-> NoCall]

Init ==
    /\ keywords = InitKeywords
    /\ help_indicators = InitHelpIndicators
    /\ urgency_indicators = InitUrgencyIndicators
    /\ pc = "idle"
    /\ op = NoCall
    /\ arg = NoCall
    /\ result = NoCall
    /\ calls = [c \in Callers |-> Idle]

lexicons == <<keywords, help_indicators, urgency_indicators>>

Returned(method, argument, value) ==
    /\ pc' = "returned"
    /\ op' = method
    /\ arg' = argument
    /\ result' = value
    /\ UNCHANGED <<lexicons, calls>>

CallPreprocessText ==
    /\ pc = "idle"
    /\ \E text \in RawTexts :
          Returned("preprocess_text", text, preprocess_text(text))

CallDetectUrgency ==
    /\ pc = "idle"
    /\ \E text \in UrgencyTexts :
          Returned("detect_urgency", text, detect_urgency(Self, text))

CallAnalyzePost ==
    /\ pc = "idle"
    /\ \E post_text \in Posts :
          \E score \in analyze_post(Self, post_text) :
              Returned("analyze_post", post_text, score)

CallGenerateResponseSuggestions ==
    /\ pc = "idle"
    /\ \E opportunity \in Opportunities :
          Returned("generate_response_suggestions", opportunity,
                   generate_response_suggestions(opportunity))

\* the caller drops the result and is ready for the next call
Return ==
    /\ pc = "returned"
    /\ pc' = "idle"
    /\ op' = NoCall
    /\ arg' = NoCall
    /\ result' = NoCall
    /\ UNCHANGED <<lexicons, calls>>

Next ==
    \/ CallPreprocessText
    \/ CallDetectUrgency
    \/ CallAnalyzePost
    \/ CallGenerateResponseSuggestions
    \/ Return

Spec == Init /\ [][Next]_vars

-----------------------------------------------------------------------------
(* Concurrent callers of one agent: each runs analyze_post, then            *)
(* generate_response_suggestions on what it returned, one statement that    *)
(* reads the agent at a time, interleaved with the others                   *)

ConcurrentPosts == {"Looking for a dashboard", "URGENT: need help", "dashboard soon"}

\* analyze_post is entered: cleaned_text = self.preprocess_text(post_text)
Enter(c) ==
    /\ calls[c].pc = "idle"
    /\ \E post_text \in ConcurrentPosts :
          calls' = [calls EXCEPT ![c] =
                      [Idle EXCEPT !.pc = "entered",
                                   !.post_text = post_text,
                                   !.cleaned_text = preprocess_text(post_text)]]
    /\ UNCHANGED <<lexicons, pc, op, arg, result>>

\* lines 187-196: the help-seeking check and the early return
DetectHelp(c) ==
    /\ calls[c].pc = "entered"
    /\ LET help == detect_help_seeking(Self, calls[c].cleaned_text)
       IN  calls' = [calls EXCEPT ![c] =
                      IF help.is_seeking_help
                      THEN [@ EXCEPT !.pc = "seeking",
                                     !.help_indicators = help.help_indicators]
                      ELSE [@ EXCEPT !.pc = "returned",
                                     !.help_indicators = help.help_indicators,
                                     !.score = NotSeekingHelp]]
    /\ UNCHANGED <<lexicons, pc, op, arg, result>>

\* line 199
Score(c) ==
    /\ calls[c].pc = "seeking"
    /\ calls' = [calls EXCEPT ![c] =
                   [@ EXCEPT !.pc = "scored",
                             !.opportunity_scores =
                                 calculate_opportunity_scores(Self, calls[c].cleaned_text)]]
    /\ UNCHANGED <<lexicons, pc, op, arg, result>>

\* lines 211-214
Classify(c) ==
    /\ calls[c].pc = "scored"
    /\ calls' = [calls EXCEPT ![c] =
                   [@ EXCEPT !.pc = "classified",
                             !.urgency = detect_urgency(Self, calls[c].cleaned_text),
                             !.requirements = extract_requirements(calls[c].cleaned_text)]]
    /\ UNCHANGED <<lexicons, pc, op, arg, result>>

\* as Compile, with the keywords found appended to self.help_indicators
\* instead of the local list key_indicators
Compile_shared(c) ==
    /\ calls[c].pc = "classified"
    /\ help_indicators' =
          help_indicators \o KeywordsFoundFrom(keywords, calls[c].cleaned_text, 1)
    /\ \E top \in TopLists(calls[c].help_indicators) :
          calls' = [calls EXCEPT ![c] =
                      [@ EXCEPT !.pc = "returned",
                                !.score =
                                    [opportunity_type |-> TypeOf(calls[c].opportunity_scores),
                                     confidence_score |-> Best(calls[c].opportunity_scores).score,
                                     urgency_level |-> calls[c].urgency,
                                     key_indicators |-> top,
                                     extracted_requirements |-> calls[c].requirements]]]
    /\ UNCHANGED <<keywords, urgency_indicators, pc, op, arg, result>>

\* lines 217-229: the key indicators and the return
Compile(c) ==
    /\ calls[c].pc = "classified"
    /\ \E top \in TopLists(CompiledIndicators(Self, calls[c].help_indicators,
                                               calls[c].cleaned_text)) :
          calls' = [calls EXCEPT ![c] =
                      [@ EXCEPT !.pc = "returned",
                                !.score =
                                    [opportunity_type |-> TypeOf(calls[c].opportunity_scores),
                                     confidence_score |-> Best(calls[c].opportunity_scores).score,
                                     urgency_level |-> calls[c].urgency,
                                     key_indicators |-> top,
                                     extracted_requirements |-> calls[c].requirements]]]
    /\ UNCHANGED <<lexicons, pc, op, arg, result>>

\* generate_response_suggestions on the object returned
Suggest(c) ==
    /\ calls[c].pc = "returned"
    /\ calls' = [calls EXCEPT ![c] =
                   [@ EXCEPT !.pc = "suggested",
                             !.suggestions = generate_response_suggestions(calls[c].score)]]
    /\ UNCHANGED <<lexicons, pc, op, arg, result>>

\* the caller drops what it got
Leave(c) ==
    /\ calls[c].pc = "suggested"
    /\ calls' = [calls EXCEPT ![c] = Idle]
    /\ UNCHANGED <<lexicons, pc, op, arg, result>>

NextConcurrent ==
    \E c \in Callers :
        \/ Enter(c)
        \/ DetectHelp(c)
        \/ Score(c)
        \/ Classify(c)
        \/ Compile(c)
        \/ Suggest(c)
        \/ Leave(c)

SpecConcurrent == Init /\ [][NextConcurrent]_vars

-----------------------------------------------------------------------------
(* What the properties are stated with: the lexicons as sets, and the       *)
(* categories and tiers in the orders the specification gives them          *)

HelpPhrases == Range(InitHelpIndicators)

CategoryOrder ==
    <<DATA_INTEGRATION, DATA_VISUALIZATION, WEB_DEVELOPMENT, APP_DEVELOPMENT>>

Lexicon(category) == CHOOSE entry \in Range(InitKeywords) : entry.type = category

AllKeywords ==
    UNION {Range(entry.primary) \cup Range(entry.secondary) : entry \in Range(InitKeywords)}

SeeksHelp(text) == \E phrase \in HelpPhrases : Contains(text, phrase)

\* min(1, (2 * primary matches + secondary matches) / (2 * primaries + secondaries))
Confidence(category, text) ==
    LET primary == Range(Lexicon(category).primary)
        secondary == Range(Lexicon(category).secondary)
        weighted == 2 * Cardinality({kw \in primary : Contains(text, kw)})
                    + Cardinality({kw \in secondary : Contains(text, kw)})
        most == 2 * Cardinality(primary) + Cardinality(secondary)
    IN  IF weighted >= most THEN Frac(1, 1) ELSE Frac(weighted, most)

FracEq(x, y) == x.num * y.den = y.num * x.den

\* the categories whose confidence is strictly above 0.3
Above(text) == {c \in Range(CategoryOrder) : FracLess(Frac(3, 10), Confidence(c, text))}

\* a greatest confidence among the four categories
IsMaxConfidence(x, text) ==
    /\ \E c \in Range(CategoryOrder) : FracEq(x, Confidence(c, text))
    /\ \A c \in Range(CategoryOrder) : ~FracLess(x, Confidence(c, text))

\* the first category, in enumeration order, of the greatest confidence
FirstMaxCategory(text) ==
    LET k == CHOOSE i \in 1..Len(CategoryOrder) :
                /\ IsMaxConfidence(Confidence(CategoryOrder[i], text), text)
                /\ \A j \in 1..(i - 1) :
                      ~IsMaxConfidence(Confidence(CategoryOrder[j], text), text)
    IN  CategoryOrder[k]

Analyzed == pc = "returned" /\ op = "analyze_post"

\* the normalized text of the post analyzed
Normalized == preprocess_text(arg)

\* text has two occurrences of kw
OccursTwice(text, kw) ==
    \E i, j \in 1..Len(text) : i < j /\ StartsAt(text, i, kw) /\ StartsAt(text, j, kw)

-----------------------------------------------------------------------------
(* C1 *)

\* C1: a post whose normalized text has none of the help-seeking phrases is
\* returned as the one non-opportunity verdict: data_integration, confidence
\* 0.0, urgency low, no key indicator, no requirement
C1_NonOpportunity ==
    (Analyzed /\ ~SeeksHelp(Normalized)) =>
        result = [opportunity_type |-> "data_integration",
                  confidence_score |-> [num |-> 0, den |-> 1],
                  urgency_level |-> "low",
                  key_indicators |-> <<>>,
                  extracted_requirements |-> <<>>]

\* a post with an urgency phrase and keywords enough for a confidence above
\* 0.3, and no help-seeking phrase, was analyzed
C1_Witness ==
    /\ Analyzed /\ ~SeeksHelp(Normalized)
    /\ Contains(Normalized, "urgent")
    /\ Above(Normalized) # {}
    /\ result.confidence_score = [num |-> 0, den |-> 1]

-----------------------------------------------------------------------------
(* C2 *)

\* C2 as stated: whenever two base categories or more have a confidence
\* above 0.3, the verdict is mixed with the greatest confidence
C2_AsStated ==
    (Analyzed /\ Cardinality(Above(Normalized)) >= 2) =>
        /\ result.opportunity_type = MIXED
        /\ IsMaxConfidence(result.confidence_score, Normalized)

\* C2, amended: whenever a help-seeking phrase is found and two base
\* categories or more have a confidence above 0.3, the verdict is mixed with
\* the greatest confidence of the base categories
C2_MixedWhenSeekingHelp ==
    (Analyzed /\ SeeksHelp(Normalized) /\ Cardinality(Above(Normalized)) >= 2) =>
        /\ result.opportunity_type = MIXED
        /\ IsMaxConfidence(result.confidence_score, Normalized)

\* a post seeking help with two categories above 0.3 was returned as mixed,
\* its confidence not the first category's
C2_Witness ==
    /\ Analyzed /\ SeeksHelp(Normalized)
    /\ Above(Normalized) = {DATA_VISUALIZATION, APP_DEVELOPMENT}
    /\ result.opportunity_type = MIXED
    /\ FracEq(result.confidence_score, Confidence(APP_DEVELOPMENT, Normalized))

-----------------------------------------------------------------------------
(* C3 *)

\* C3: preprocess_text is idempotent: normalizing a text it returned gives
\* the same text again
C3_Idempotent ==
    (pc = "returned" /\ op = "preprocess_text") => preprocess_text(result) = result

-----------------------------------------------------------------------------
(* C4 *)

\* C4: the first sample post is returned as data_visualization with a
\* confidence above 0.3, urgency medium, a budget entry with "5k" and a
\* timeline entry with "3 weeks"
C4_FirstSample ==
    (Analyzed /\ arg = SamplePosts[1]) =>
        /\ result.opportunity_type = DATA_VISUALIZATION
        /\ FracLess(Frac(3, 10), result.confidence_score)
        /\ result.urgency_level = MEDIUM
        /\ \E r \in Range(result.extracted_requirements) :
              StartsAt(r, 1, "Budget mentioned: ") /\ Contains(r, "5k")
        /\ \E r \in Range(result.extracted_requirements) :
              StartsAt(r, 1, "Timeline: ") /\ Contains(r, "3 weeks")

-----------------------------------------------------------------------------
(* C5 *)

PriorityOrder == <<URGENT, HIGH, MEDIUM, LOW>>

TierPhrases(level) ==
    Range((CHOOSE tier \in Range(InitUrgencyIndicators) : tier.level = level).indicators)

TierMatches(level, text) == \E phrase \in TierPhrases(level) : Contains(text, phrase)

\* C5: detect_urgency returns the first tier, in the order urgent, high,
\* medium, low, one of whose phrases is in the text, and medium if no tier
\* has one
C5_FirstTier ==
    (pc = "returned" /\ op = "detect_urgency") =>
        \/ /\ \A k \in 1..Len(PriorityOrder) : ~TierMatches(PriorityOrder[k], arg)
           /\ result = MEDIUM
        \/ \E k \in 1..Len(PriorityOrder) :
              /\ TierMatches(PriorityOrder[k], arg)
              /\ \A j \in 1..(k - 1) : ~TierMatches(PriorityOrder[j], arg)
              /\ result = PriorityOrder[k]

\* a text with a phrase of the urgent tier and one of the low tier was
\* classified urgent
C5_Witness ==
    /\ pc = "returned" /\ op = "detect_urgency"
    /\ TierMatches(URGENT, arg) /\ TierMatches(LOW, arg)
    /\ result = URGENT

-----------------------------------------------------------------------------
(* C6 *)

\* C6: the confidence returned is in [0, 1], and when a help-seeking phrase
\* is found it is the weighted share of the keywords matched, each counted
\* once, of the category where that share is greatest
C6_Confidence ==
    Analyzed =>
        /\ ~FracLess(result.confidence_score, Frac(0, 1))
        /\ ~FracLess(Frac(1, 1), result.confidence_score)
        /\ SeeksHelp(Normalized) => IsMaxConfidence(result.confidence_score, Normalized)

\* a post seeking help in which keywords occur twice was given a confidence
\* that counts them once
C6_Witness ==
    /\ Analyzed /\ SeeksHelp(Normalized)
    /\ OccursTwice(Normalized, "mobile app") /\ OccursTwice(Normalized, "swift")
    /\ result.confidence_score = Frac(10, 28)

-----------------------------------------------------------------------------
(* C7 *)

Suggested == pc = "returned" /\ op = "generate_response_suggestions"

\* C7: below 0.2 the suggestions are the one low-confidence message; from
\* 0.2 on they are the three of the category, then the two of urgency if and
\* only if the urgency is high or urgent
C7_Suggestions ==
    Suggested =>
        IF arg.confidence_score.num * 10 < 2 * arg.confidence_score.den
        THEN result = <<"Low confidence opportunity - may not be relevant">>
        ELSE /\ Len(result) = (IF arg.urgency_level \in {"high", "urgent"} THEN 5 ELSE 3)
             /\ Len(base_approaches(arg.opportunity_type)) = 3
             /\ SubSeq(result, 1, 3) = base_approaches(arg.opportunity_type)
             /\ arg.urgency_level \in {"high", "urgent"} =>
                   /\ result[4] = "Emphasize quick turnaround and availability"
                   /\ result[5] = "Mention agile development approach"

\* a mixed verdict of confidence exactly 0.2 and urgency high got five
\* suggestions
C7_Witness ==
    /\ Suggested
    /\ arg.confidence_score = Frac(2, 10)
    /\ arg.opportunity_type = MIXED /\ arg.urgency_level = HIGH
    /\ Len(result) = 5

-----------------------------------------------------------------------------
(* C8 *)

\* C8: under any interleaving of the callers the lexicons stay as __init__
\* built them, and every call has returned what the same call returns on an
\* agent no other caller uses
C8_Isolation ==
    /\ keywords = InitKeywords
    /\ help_indicators = InitHelpIndicators
    /\ urgency_indicators = InitUrgencyIndicators
    /\ \A c \in Callers :
          /\ calls[c].pc \in {"returned", "suggested"} =>
                calls[c].score \in analyze_post(InitSelf, calls[c].post_text)
          /\ calls[c].pc = "suggested" =>
                calls[c].suggestions = generate_response_suggestions(calls[c].score)

\* a call has returned a verdict with key indicators while another caller,
\* on another post, is between two statements of its own call
C8_Witness ==
    \E c, d \in Callers :
        /\ calls[c].pc = "returned"
        /\ Len(calls[c].score.key_indicators) > 1
        /\ calls[d].pc \in {"seeking", "scored", "classified"}
        /\ calls[d].post_text # calls[c].post_text

-----------------------------------------------------------------------------
(* C9 *)

\* C9: when a help-seeking phrase is found and at most one category is above
\* 0.3, the verdict has the first category, in enumeration order, of the
\* greatest confidence, and the urgency detect_urgency gives; with no
\* keyword at all that is data_integration with confidence 0.0
C9_FirstMaxCategory ==
    (Analyzed /\ SeeksHelp(Normalized) /\ Cardinality(Above(Normalized)) <= 1) =>
        /\ result.opportunity_type = FirstMaxCategory(Normalized)
        /\ FracEq(result.confidence_score, Confidence(result.opportunity_type, Normalized))
        /\ result.urgency_level = detect_urgency(InitSelf, Normalized)
        /\ (\A kw \in AllKeywords : ~Contains(Normalized, kw)) =>
              /\ result.opportunity_type = "data_integration"
              /\ result.confidence_score = [num |-> 0, den |-> 1]

\* a post with a help-seeking phrase, an urgent phrase and no keyword was
\* returned as data_integration, confidence 0.0, urgency urgent
C9_Witness ==
    /\ Analyzed /\ SeeksHelp(Normalized)
    /\ \A kw \in AllKeywords : ~Contains(Normalized, kw)
    /\ result.opportunity_type = DATA_INTEGRATION
    /\ result.urgency_level = URGENT

-----------------------------------------------------------------------------
(* C10 *)

\* C10: the key indicators have no duplicate, are at most 10, each a
\* help-seeking phrase or a keyword found in the normalized text, and are
\* empty if and only if no help-seeking phrase is found
C10_KeyIndicators ==
    Analyzed =>
        LET ki == result.key_indicators
        IN  /\ \A i, j \in 1..Len(ki) : ki[i] = ki[j] => i = j
            /\ Len(ki) <= 10
            /\ \A i \in 1..Len(ki) :
                  /\ ki[i] \in HelpPhrases \cup AllKeywords
                  /\ Contains(Normalized, ki[i])
            /\ (Len(ki) = 0) <=> ~SeeksHelp(Normalized)

\* a post with more than 10 phrases found was returned with 10 of them
C10_Witness ==
    /\ Analyzed
    /\ Cardinality({x \in HelpPhrases \cup AllKeywords : Contains(Normalized, x)}) > 10
    /\ Len(result.key_indicators) = 10

====
